---- MODULE Spec2Model ----
(***************************************************************************)
(* Model of the NetworkMonitor class of Downtime-v2.py: the outage state   *)
(* machine (record_check and its two transitions) and the statistics of    *)
(* generate_report.  Time is the wall clock read by datetime.now(), in     *)
(* whole seconds, and never runs backwards.                                *)
(***************************************************************************)
EXTENDS Integers, Sequences, FiniteSets, TLC

\* monitor: the NetworkMonitor object, with the lines of its log file (log)
\*          and the notices printed to the console (console)
\* now:     the wall clock
\* calls, reports: the record_check and generate_report calls completed
\* proc:    the running program: the position of the main loop, the locals
\*          of perform_connectivity_test and the interrupt handler
VARIABLES monitor, now, calls, reports, proc

vars == <<monitor, now, calls, reports, proc>>

\* ---- bounds of the model ------------------------------------------------
MaxChecks == 7
MaxReports == 2
MaxTime == 3
MaxSignals == 2

\* ---- program constants --------------------------------------------------
FAILURE_THRESHOLD == 3

PING_TARGETS == <<"8.8.8.8", "1.1.1.1", "208.67.222.222">>

DNS_TEST_DOMAINS == <<"google.com", "cloudflare.com", "amazon.com">>

\* Python's None for current_outage_start and for a missing response time
None == -1

\* the latencies a probe may report: none (DNS probe, unparsed ping) or a value
ResponseTimes == {None, 20}

\* ---- helpers ------------------------------------------------------------
RECURSIVE SumSeq(_)
SumSeq(s) == IF s = <<>> THEN 0 ELSE Head(s) + SumSeq(Tail(s))

Durations(outs) == [i \in 1..Len(outs) |-> outs[i].duration]

MaxOf(S) == CHOOSE x \in S : \A y \in S : y <= x
MinOf(S) == CHOOSE x \in S : \A y \in S : x <= y

\* faulty variant: the line is written twice
_log_event_twice(m, event_type) ==
    [m EXCEPT !.log = Append(Append(@, event_type), event_type)]

\* _log_event appends one line of the given event type to the log and the CSV
_log_event(m, event_type) == [m EXCEPT !.log = Append(@, event_type)]

\* print(): one console notice
print(m, notice) == [m EXCEPT !.console = Append(@, notice)]

\* ---- NetworkMonitor.__init__ -------------------------------------------
__init__(t) ==
    _log_event(
      [ start_time |-> t,
        is_online |-> TRUE,
        current_outage_start |-> None,
        consecutive_failures |-> 0,
        total_checks |-> 0,
        successful_checks |-> 0,
        failed_checks |-> 0,
        outages |-> <<>>,
        response_times |-> <<>>,
        log |-> <<>>,
        console |-> <<>> ],
      "MONITOR_START")

\* ---- the two transitions -----------------------------------------------
\* faulty variant: goes offline without recording when
_transition_to_offline_keep(m, t) ==
    print(_log_event([m EXCEPT !.is_online = FALSE], "OUTAGE_START"),
          "OUTAGE DETECTED")

_transition_to_offline(m, t) ==
    print(_log_event([m EXCEPT !.is_online = FALSE,
                               !.current_outage_start = t],
                     "OUTAGE_START"),
          "OUTAGE DETECTED")

\* faulty variant: the duration is not computed
closed_outage_zero(start, end) ==
    [start |-> start, end |-> end, duration |-> 0, ongoing |-> FALSE]

\* faulty variant: a closed outage carries the ongoing flag
closed_outage_flagged(start, end) ==
    [start |-> start, end |-> end, duration |-> end - start, ongoing |-> TRUE]

\* the dict appended at lines 113-117; it has no 'ongoing' key, which
\* outage.get('ongoing') reads as false
closed_outage(start, end) ==
    [start |-> start, end |-> end, duration |-> end - start, ongoing |-> FALSE]

_transition_to_online(m, t) ==
    LET outage_end == t
        m1 == [m EXCEPT !.is_online = TRUE,
                        !.outages = Append(@, closed_outage(m.current_outage_start, outage_end))]
        m2 == print(print(_log_event(m1, "OUTAGE_END"), "Connection restored"),
                    "Outage lasted")
    IN  [m2 EXCEPT !.current_outage_start = None]

\* ---- record_check -------------------------------------------------------
\* lines 82-85: the bookkeeping of a successful check
count_success(m, response_time) ==
    [m EXCEPT !.successful_checks = @ + 1,
              !.consecutive_failures = 0,
              !.response_times = IF response_time # None
                                 THEN Append(@, response_time) ELSE @]

\* faulty variant: a failed check is not counted in failed_checks
count_failure_uncounted(m) ==
    [m EXCEPT !.consecutive_failures = @ + 1]

\* lines 93-94: the bookkeeping of a failed check
count_failure(m) ==
    [m EXCEPT !.failed_checks = @ + 1,
              !.consecutive_failures = @ + 1]

\* faulty variant: the gate opens one failure early
goes_offline_early(m) ==
    m.is_online /\ m.consecutive_failures >= FAILURE_THRESHOLD - 1

\* faulty variant: the gate opens only after twice the threshold
goes_offline_late(m) ==
    m.is_online /\ m.consecutive_failures >= 2 * FAILURE_THRESHOLD

\* faulty variant: the gate does not look at is_online
goes_offline_again(m) ==
    m.consecutive_failures >= FAILURE_THRESHOLD

\* line 98: the hysteresis gate
goes_offline(m) ==
    m.is_online /\ m.consecutive_failures >= FAILURE_THRESHOLD

record_check(m, success, response_time, t) ==
    LET m0 == [m EXCEPT !.total_checks = @ + 1] IN
    IF success
    THEN LET m1 == count_success(m0, response_time)
             m2 == IF ~m1.is_online THEN _transition_to_online(m1, t) ELSE m1
         IN  _log_event(m2, "SUCCESS")
    ELSE LET m1 == count_failure(m0)
             m2 == _log_event(m1, "FAILURE")
         IN  IF goes_offline(m2) THEN _transition_to_offline(m2, t) ELSE m2

\* ---- generate_report ----------------------------------------------------
\* the dict appended at lines 148-153 for an outage still open at report time
ongoing_outage(start, end_time) ==
    [start |-> start, end |-> end_time, duration |-> end_time - start,
     ongoing |-> TRUE]

\* lines 146-153: the outage list after the report's append
report_outages(m, end_time) ==
    IF ~m.is_online /\ m.current_outage_start # None
    THEN Append(m.outages, ongoing_outage(m.current_outage_start, end_time))
    ELSE m.outages

\* line 157, in hundredths of a percent (the report prints two decimals)
uptime_percentage(total_uptime, total_runtime) ==
    IF total_runtime > 0 THEN (total_uptime * 10000) \div total_runtime ELSE 0

\* faulty variant: the statistics block is printed for a single record too
outage_statistics_from_one(outs) ==
    IF Len(outs) > 0
    THEN LET durations == Durations(outs)
             values == {durations[i] : i \in 1..Len(durations)}
         IN  [present |-> TRUE,
              avg_outage |-> SumSeq(durations) \div Len(durations),
              max_outage |-> MaxOf(values),
              min_outage |-> MinOf(values)]
    ELSE [present |-> FALSE]

\* lines 194-204: the statistics block, present for more than one record;
\* _format_duration truncates each value to whole seconds
outage_statistics(outs) ==
    IF Len(outs) > 1
    THEN LET durations == Durations(outs)
             values == {durations[i] : i \in 1..Len(durations)}
         IN  [present |-> TRUE,
              avg_outage |-> SumSeq(durations) \div Len(durations),
              max_outage |-> MaxOf(values),
              min_outage |-> MinOf(values)]
    ELSE [present |-> FALSE]

\* faulty variant: the details section needs two records
has_outage_details_from_two(outs) == Len(outs) > 1

\* line 183: the OUTAGE DETAILS section is printed for a non-empty list
has_outage_details(outs) == outs # <<>>

\* lines 155-204: the figures the report prints, read from the monitor
\* after the append of lines 146-153
render_report(m, end_time) ==
    LET total_runtime == end_time - m.start_time
        outs == m.outages
        total_outage_time == SumSeq(Durations(outs))
        total_uptime == total_runtime - total_outage_time
    IN  [end_time |-> end_time,
         total_runtime |-> total_runtime,
         total_checks |-> m.total_checks,
         successful_checks |-> m.successful_checks,
         failed_checks |-> m.failed_checks,
         avg_response_time |->
             IF m.response_times # <<>>
             THEN SumSeq(m.response_times) \div Len(m.response_times)
             ELSE 0,
         total_uptime |-> total_uptime,
         total_outage_time |-> total_outage_time,
         uptime_percentage |-> uptime_percentage(total_uptime, total_runtime),
         number_of_outages |-> Len(outs),
         outage_list |-> outs,
         has_outage_details |-> has_outage_details(outs),
         statistics |-> IF has_outage_details(outs) THEN outage_statistics(outs)
                        ELSE [present |-> FALSE]]

\* lines 143-204: the figures the report prints for a call made at time t
report_text(m, t) ==
    render_report([m EXCEPT !.outages = report_outages(m, t)], t)

\* what the call leaves behind: the appended record and the printed report
generate_report(m, t) ==
    print([m EXCEPT !.outages = report_outages(m, t)], "REPORT")

\* ---- the clock ----------------------------------------------------------
\* the values datetime.now() may return to a call made at time `now`
Clock == now..MaxTime

\* ---- specification: any sequence of calls on one monitor ----------------
\* line 315 done: the monitor is constructed, the handler installed, and
\* the main loop about to start
proc0 ==
    [pc |-> "loop",
     phase |-> "PING",
     i |-> 1,
     results |-> <<>>,
     probed |-> <<>>,
     success |-> FALSE,
     response_time |-> None,
     ret |-> FALSE,
     entry |-> __init__(0),
     hpc |-> "none",
     end_time |-> None,
     signals |-> 0,
     report_calls |-> 0,
     final_reports |-> <<>>]

Init ==
    /\ now = 0
    /\ monitor = __init__(0)
    /\ calls = 0
    /\ reports = 0
    /\ proc = proc0

\* one record_check call; target, test_type and details only travel into the
\* log line, and a failed probe carries no response time (lines 259, 286)
RecordCheck ==
    \E success \in BOOLEAN, response_time \in ResponseTimes, t \in Clock :
        /\ calls < MaxChecks
        /\ success \/ response_time = None
        /\ monitor' = record_check(monitor, success, response_time, t)
        /\ now' = t
        /\ calls' = calls + 1
        /\ UNCHANGED <<reports, proc>>

GenerateReport ==
    \E t \in Clock :
        /\ reports < MaxReports
        /\ monitor' = generate_report(monitor, t)
        /\ now' = t
        /\ reports' = reports + 1
        /\ UNCHANGED <<calls, proc>>

Next == RecordCheck \/ GenerateReport

Spec == Init /\ [][Next]_vars

\* ---- specification: the checks of the timed scenario ------------------
\* the times, in seconds after the start, at which the scenario's checks
\* are recorded
ScenarioTimes == <<2, 4, 6, 10>>

ScenarioCheck ==
    \E success \in BOOLEAN, response_time \in ResponseTimes :
        /\ calls < Len(ScenarioTimes)
        /\ success \/ response_time = None
        /\ monitor' = record_check(monitor, success, response_time,
                                   ScenarioTimes[calls + 1])
        /\ now' = ScenarioTimes[calls + 1]
        /\ calls' = calls + 1
        /\ UNCHANGED <<reports, proc>>

ScenarioReport ==
    /\ reports < MaxReports
    /\ monitor' = generate_report(monitor, now)
    /\ reports' = reports + 1
    /\ UNCHANGED <<now, calls, proc>>

ScenarioNext == ScenarioCheck \/ ScenarioReport

ScenarioSpec == Init /\ [][ScenarioNext]_vars

\* ---- specification: the program, statement by statement ---------------
\* record_check and its transitions, one statement a step; pc names the
\* line about to run.  Statements that touch only locals run with the next
\* statement that touches the monitor, the log or the console.
RcPcs == {"rc79", "rc82", "rc83", "rc84", "rc87", "rc90",
          "rc93", "rc94", "rc95", "rc98",
          "ton109", "ton110", "ton119", "ton121", "ton122", "ton124",
          "toff102", "toff103", "toff104", "toff106"}

rc_statement(pc, m, success, response_time, t) ==
    CASE pc = "rc79" ->
           [m |-> [m EXCEPT !.total_checks = @ + 1],
            pc |-> IF success THEN "rc82" ELSE "rc93"]
      [] pc = "rc82" ->
           [m |-> [m EXCEPT !.successful_checks = @ + 1], pc |-> "rc83"]
      [] pc = "rc83" ->
           [m |-> [m EXCEPT !.consecutive_failures = 0], pc |-> "rc84"]
      [] pc = "rc84" ->
           [m |-> [m EXCEPT !.response_times =
                       IF response_time # None
                       THEN Append(@, response_time) ELSE @],
            pc |-> "rc87"]
      [] pc = "rc87" ->
           [m |-> m, pc |-> IF ~m.is_online THEN "ton109" ELSE "rc90"]
      [] pc = "ton109" ->
           [m |-> [m EXCEPT !.is_online = TRUE], pc |-> "ton110"]
      [] pc = "ton110" ->
           [m |-> [m EXCEPT !.outages =
                       Append(@, closed_outage(m.current_outage_start, t))],
            pc |-> "ton119"]
      [] pc = "ton119" ->
           [m |-> _log_event(m, "OUTAGE_END"), pc |-> "ton121"]
      [] pc = "ton121" ->
           [m |-> print(m, "Connection restored"), pc |-> "ton122"]
      [] pc = "ton122" ->
           [m |-> print(m, "Outage lasted"), pc |-> "ton124"]
      [] pc = "ton124" ->
           [m |-> [m EXCEPT !.current_outage_start = None], pc |-> "rc90"]
      [] pc = "rc90" ->
           [m |-> _log_event(m, "SUCCESS"), pc |-> "after_rc"]
      [] pc = "rc93" ->
           [m |-> [m EXCEPT !.failed_checks = @ + 1], pc |-> "rc94"]
      [] pc = "rc94" ->
           [m |-> [m EXCEPT !.consecutive_failures = @ + 1], pc |-> "rc95"]
      [] pc = "rc95" ->
           [m |-> _log_event(m, "FAILURE"), pc |-> "rc98"]
      [] pc = "rc98" ->
           [m |-> m, pc |-> IF goes_offline(m) THEN "toff102" ELSE "after_rc"]
      [] pc = "toff102" ->
           [m |-> [m EXCEPT !.is_online = FALSE], pc |-> "toff103"]
      [] pc = "toff103" ->
           [m |-> [m EXCEPT !.current_outage_start = t], pc |-> "toff104"]
      [] pc = "toff104" ->
           [m |-> _log_event(m, "OUTAGE_START"), pc |-> "toff106"]
      [] pc = "toff106" ->
           [m |-> print(m, "OUTAGE DETECTED"), pc |-> "after_rc"]

\* any(results), lines 282 and 292
any(results) == \E k \in 1..Len(results) : results[k]

\* faulty variant: the fallback tries every DNS domain
dns_domains_all == DNS_TEST_DOMAINS

\* DNS_TEST_DOMAINS[:2], line 283
dns_domains == SubSeq(DNS_TEST_DOMAINS, 1, 2)

\* the list the loop of the current phase runs over
targets(phase) == IF phase = "PING" THEN PING_TARGETS ELSE dns_domains

\* the main loop and the handler run one at a time
Running == proc.pc # "exited" /\ proc.hpc = "none"

\* lines 318-319 and 272-273: the loop calls perform_connectivity_test
StartCycle ==
    /\ Running
    /\ proc.pc = "loop"
    /\ proc' = [proc EXCEPT !.pc = "probe", !.phase = "PING", !.i = 1,
                            !.results = <<>>, !.probed = <<>>]
    /\ UNCHANGED <<monitor, now, calls, reports>>

\* lines 274-276 and 284-286: one probe, whose outcome the network decides,
\* and the call of record_check with its result; a successful ping passes
\* its latency, a DNS probe passes no response time (as does a ping whose
\* output could not be parsed, line 256)
Probe ==
    \E success \in BOOLEAN, response_time \in ResponseTimes :
        /\ Running
        /\ proc.pc = "probe"
        /\ calls < MaxChecks
        /\ response_time = (IF success /\ proc.phase = "PING" THEN 20 ELSE None)
        /\ LET target == targets(proc.phase)[proc.i] IN
           proc' = [proc EXCEPT !.pc = "rc79",
                                !.success = success,
                                !.response_time = response_time,
                                !.results = Append(@, success),
                                !.probed = Append(@, <<target, success>>),
                                !.entry = monitor]
        /\ calls' = calls + 1
        /\ UNCHANGED <<monitor, now, reports>>

\* one statement of record_check, _transition_to_online or
\* _transition_to_offline
RecordCheckStep ==
    /\ Running
    /\ proc.pc \in RcPcs
    /\ LET r == rc_statement(proc.pc, monitor, proc.success,
                             proc.response_time, now)
       IN  /\ monitor' = r.m
           /\ proc' = [proc EXCEPT !.pc = r.pc]
    /\ UNCHANGED <<now, calls, reports>>

\* faulty variant: the loop goes on after a successful probe
next_after_check_no_break(phase, i, success) ==
    IF i < Len(targets(phase))
    THEN [pc |-> "probe", i |-> i + 1]
    ELSE [pc |-> IF phase = "PING" THEN "check_any" ELSE "return", i |-> i]

\* lines 278-280 and 288-290: break on a success, else sleep and go on with
\* the next target; the loop's end leads to line 282 or to line 292
next_after_check(phase, i, success) ==
    IF ~success /\ i < Len(targets(phase))
    THEN [pc |-> "probe", i |-> i + 1]
    ELSE [pc |-> IF phase = "PING" THEN "check_any" ELSE "return", i |-> i]

AfterCheck ==
    /\ Running
    /\ proc.pc = "after_rc"
    /\ LET n == next_after_check(proc.phase, proc.i, proc.success)
       IN  proc' = [proc EXCEPT !.pc = n.pc, !.i = n.i]
    /\ UNCHANGED <<monitor, now, calls, reports>>

\* line 282: the DNS fallback runs if no ping succeeded
CheckAny ==
    /\ Running
    /\ proc.pc = "check_any"
    /\ proc' = IF ~any(proc.results)
               THEN [proc EXCEPT !.pc = "probe", !.phase = "DNS", !.i = 1]
               ELSE [proc EXCEPT !.pc = "return"]
    /\ UNCHANGED <<monitor, now, calls, reports>>

\* line 292: return any(results); the main loop then sleeps (line 320)
Return ==
    /\ Running
    /\ proc.pc = "return"
    /\ proc' = [proc EXCEPT !.pc = "sleep", !.ret = any(proc.results)]
    /\ UNCHANGED <<monitor, now, calls, reports>>

\* line 320 and back to line 318; the clock of the program model moves
\* here, by one second as long as it is below MaxTime
Sleep ==
    /\ Running
    /\ proc.pc = "sleep"
    /\ proc' = [proc EXCEPT !.pc = "loop"]
    /\ now' = IF now < MaxTime THEN now + 1 ELSE now
    /\ UNCHANGED <<monitor, calls, reports>>

MainLoop == StartCycle \/ Probe \/ RecordCheckStep \/ AfterCheck
               \/ CheckAny \/ Return \/ Sleep

\* SIGINT: Python runs end_signal between two statements of whatever is
\* running, the main loop or an earlier end_signal that has not finished;
\* the interrupted code resumes only if the handler returns, which this
\* handler never does
Interrupt ==
    /\ proc.pc # "exited"
    /\ proc.signals < MaxSignals
    /\ proc' = [proc EXCEPT !.hpc = "h296", !.signals = @ + 1]
    /\ UNCHANGED <<monitor, now, calls, reports>>

HandlerPcs == {"h296", "g146", "g215", "h298"}

\* end_signal and the generate_report it calls, one statement a step;
\* line 298 raises SystemExit through every frame below and ends the process
HandlerStep ==
    /\ proc.pc # "exited"
    /\ proc.hpc \in HandlerPcs
    /\ CASE proc.hpc = "h296" ->
              \* lines 296 and 143: the notice, and generate_report entered
              /\ monitor' = print(monitor, "Monitoring stopped by user")
              /\ proc' = [proc EXCEPT !.hpc = "g146", !.end_time = now,
                                      !.report_calls = @ + 1]
              /\ UNCHANGED reports
         [] proc.hpc = "g146" ->
              \* lines 146-153
              /\ monitor' = [monitor EXCEPT
                                !.outages = report_outages(monitor, proc.end_time)]
              /\ proc' = [proc EXCEPT !.hpc = "g215"]
              /\ UNCHANGED reports
         [] proc.hpc = "g215" ->
              \* lines 155-218: the report computed, written and printed
              /\ monitor' = print(monitor, "REPORT")
              /\ proc' = [proc EXCEPT
                             !.hpc = "h298",
                             !.final_reports =
                                 Append(@, render_report(monitor, proc.end_time))]
              /\ reports' = reports + 1
         [] proc.hpc = "h298" ->
              \* line 298
              /\ proc' = [proc EXCEPT !.hpc = "none", !.pc = "exited"]
              /\ UNCHANGED <<monitor, reports>>
    /\ UNCHANGED <<now, calls>>

MainNext == MainLoop \/ Interrupt \/ HandlerStep

MainSpec == Init /\ [][MainNext]_vars

\* a record_check call that ran to its end without an interrupt did what
\* the call does as a whole
StepwiseAgrees ==
    (proc.pc = "after_rc" /\ proc.signals = 0) =>
        monitor = record_check(proc.entry, proc.success, proc.response_time, now)

\* ---- vocabulary of the properties ---------------------------------------
Count(s, x) == Cardinality({i \in 1..Len(s) : s[i] = x})

Ongoing(outs) == {i \in 1..Len(outs) : outs[i].ongoing}

\* the step is a completed record_check call, successful or failed
IsCheck == calls' = calls + 1
IsSuccess == IsCheck /\ monitor'.successful_checks = monitor.successful_checks + 1
IsFailure == IsCheck /\ monitor'.failed_checks = monitor.failed_checks + 1
IsReport == reports' = reports + 1

\* what the step appended to a sequence that only grows
Added(old, new) == SubSeq(new, Len(old) + 1, Len(new))

\* C1: after every record_check call total_checks is the sum of
\* successful_checks and failed_checks, and is the number of calls made.
C1_CountersAddUp ==
    /\ monitor.total_checks = monitor.successful_checks + monitor.failed_checks
    /\ monitor.total_checks = calls

C1_Witness ==
    /\ monitor.successful_checks >= 2
    /\ monitor.failed_checks >= 2

\* C2: the monitor goes offline only in a failed record_check made while
\* online that brings consecutive_failures to the threshold; a success made
\* while online, and a failure below the threshold, leave is_online, the
\* console and outages alone and log no OUTAGE_START, and in the log every
\* OUTAGE_START directly follows three FAILURE lines.
C2_StepOk ==
    /\ (monitor.is_online /\ ~monitor'.is_online) =>
          /\ IsFailure
          /\ monitor'.consecutive_failures >= FAILURE_THRESHOLD
    /\ (Count(monitor'.log, "OUTAGE_START") # Count(monitor.log, "OUTAGE_START")) =>
          (monitor.is_online /\ ~monitor'.is_online)
    /\ (IsSuccess /\ monitor.is_online) =>
          /\ Added(monitor.log, monitor'.log) = <<"SUCCESS">>
          /\ monitor'.console = monitor.console
          /\ monitor'.outages = monitor.outages
          /\ monitor'.is_online
    /\ (IsFailure /\ monitor.consecutive_failures + 1 < FAILURE_THRESHOLD) =>
          /\ Added(monitor.log, monitor'.log) = <<"FAILURE">>
          /\ monitor'.console = monitor.console
          /\ monitor'.outages = monitor.outages
          /\ monitor'.is_online = monitor.is_online

C2_LogOk ==
    /\ monitor.is_online => monitor.consecutive_failures < FAILURE_THRESHOLD
    /\ \A i \in 1..Len(monitor.log) :
          monitor.log[i] = "OUTAGE_START" =>
              /\ i > FAILURE_THRESHOLD
              /\ \A k \in 1..FAILURE_THRESHOLD : monitor.log[i - k] = "FAILURE"
    /\ Count(monitor.console, "OUTAGE DETECTED") = Count(monitor.log, "OUTAGE_START")

C2_OfflineOnlyAtThreshold == []C2_LogOk /\ [][C2_StepOk]_vars

\* two failures and a success, starting online: nothing but check lines
C2_Witness ==
    /\ monitor.log = <<"MONITOR_START", "SUCCESS", "FAILURE", "FAILURE", "SUCCESS">>
    /\ monitor.outages = <<>>
    /\ monitor.console = <<>>

\* C3: a record_check call makes the offline-to-online transition (logs
\* OUTAGE_END, appends one record, sets is_online) exactly when the monitor
\* was offline before the call and the check succeeded; the record starts at
\* the current_outage_start of before the call, which the transition to
\* offline set to the time of its own call, ends at the time of this call,
\* and its duration is end - start.
C3_StepOk ==
    /\ IsCheck =>
          LET restored == Count(monitor'.log, "OUTAGE_END")
                              = Count(monitor.log, "OUTAGE_END") + 1
          IN  /\ restored <=> (~monitor.is_online /\ IsSuccess)
              /\ ~restored =>
                    /\ monitor'.outages = monitor.outages
                    /\ Count(monitor'.log, "OUTAGE_END") = Count(monitor.log, "OUTAGE_END")
                    /\ ~(~monitor.is_online /\ monitor'.is_online)
              /\ restored =>
                    /\ monitor'.is_online
                    /\ Len(monitor'.outages) = Len(monitor.outages) + 1
                    /\ SubSeq(monitor'.outages, 1, Len(monitor.outages)) = monitor.outages
                    /\ LET o == monitor'.outages[Len(monitor'.outages)]
                       IN  /\ o.start = monitor.current_outage_start
                           /\ o.end = now'
                           /\ o.duration = o.end - o.start
                           /\ o.start # None
    /\ (monitor.is_online /\ ~monitor'.is_online) =>
          monitor'.current_outage_start = now'

C3_RestoredIffOfflineAndSuccess == [][C3_StepOk]_vars

\* an outage that lasted two seconds has been closed
C3_Witness ==
    /\ monitor.is_online
    /\ Len(monitor.outages) = 1
    /\ monitor.outages[1].duration = 2
    /\ ~monitor.outages[1].ongoing

\* C4: after the constructor and after every completed record_check and
\* generate_report call, current_outage_start is set exactly when the
\* monitor is offline.
C4_OutageStartIffOffline ==
    (monitor.current_outage_start # None) <=> ~monitor.is_online

\* offline and reported, and online again after an outage
C4_Witness ==
    /\ ~monitor.is_online
    /\ reports >= 1
    /\ Count(monitor.log, "OUTAGE_END") >= 1

\* C5: while the monitor is offline a failed record_check logs only its
\* FAILURE line, prints nothing and leaves is_online and
\* current_outage_start alone; only a successful record_check brings the
\* monitor back online; so in the log an OUTAGE_START is followed by
\* nothing but FAILURE lines up to the next OUTAGE_END.
C5_StepOk ==
    /\ (~monitor.is_online /\ IsFailure) =>
          /\ ~monitor'.is_online
          /\ monitor'.current_outage_start = monitor.current_outage_start
          /\ Added(monitor.log, monitor'.log) = <<"FAILURE">>
          /\ monitor'.console = monitor.console
    /\ (~monitor.is_online /\ monitor'.is_online) => IsSuccess

C5_LogOk ==
    \A i \in 1..Len(monitor.log) :
        monitor.log[i] = "OUTAGE_START" =>
            \A j \in (i + 1)..Len(monitor.log) :
                (\A k \in (i + 1)..j : monitor.log[k] # "OUTAGE_END")
                    => monitor.log[j] = "FAILURE"

C5_StaysOfflineUntilSuccess == []C5_LogOk /\ [][C5_StepOk]_vars

\* five failures in a row from the start: one OUTAGE_START, still offline
C5_Witness ==
    /\ monitor.failed_checks = 5
    /\ monitor.successful_checks = 0
    /\ Count(monitor.log, "OUTAGE_START") = 1
    /\ ~monitor.is_online

\* C6: the records of outages that are not flagged ongoing are the
\* completed offline-to-online transitions, one each, so that outages has
\* exactly that length as long as no report was generated; a record_check
\* call never appends a record flagged ongoing, and a record flagged ongoing
\* enters outages only as the one record a generate_report call appends at
\* the end.
C6_LengthOk ==
    /\ Len(monitor.outages) - Cardinality(Ongoing(monitor.outages))
          = Count(monitor.log, "OUTAGE_END")
    /\ reports = 0 => Len(monitor.outages) = Count(monitor.log, "OUTAGE_END")

C6_StepOk ==
    /\ IsCheck =>
          Cardinality(Ongoing(monitor'.outages)) = Cardinality(Ongoing(monitor.outages))
    /\ Cardinality(Ongoing(monitor'.outages)) # Cardinality(Ongoing(monitor.outages)) =>
          /\ IsReport
          /\ Len(monitor'.outages) = Len(monitor.outages) + 1
          /\ SubSeq(monitor'.outages, 1, Len(monitor.outages)) = monitor.outages
          /\ monitor'.outages[Len(monitor'.outages)].ongoing

C7_StepOk ==
    IsReport =>
        LET used == report_text(monitor, now').outage_list
            flagged == Ongoing(used)
        IN  IF ~monitor.is_online
            THEN /\ Cardinality(flagged) = 1
                 /\ \A i \in flagged :
                       /\ used[i].start = monitor.current_outage_start
                       /\ used[i].end = now'
                       /\ used[i].duration = now' - monitor.current_outage_start
            ELSE flagged = {}

C7_OneOngoingRecordWhenOffline == [][C7_StepOk]_vars

\* C8: no outage is counted twice, whatever the order of generate_report
\* and record_check calls: no two records of outages have the same start,
\* and outages has no more records than outages have started.
C8_NoOutageCountedTwice ==
    /\ \A i, j \in 1..Len(monitor.outages) :
          i # j => monitor.outages[i].start # monitor.outages[j].start
    /\ Len(monitor.outages) <= Count(monitor.log, "OUTAGE_START")

\* C9: generate_report leaves is_online, current_outage_start,
\* consecutive_failures, the three counters, response_times and outages as
\* they were; only record_check changes them.
MonitorState(m) ==
    <<m.is_online, m.current_outage_start, m.consecutive_failures,
      m.total_checks, m.successful_checks, m.failed_checks,
      m.response_times, m.outages>>

C9_StepOk ==
    MonitorState(monitor') # MonitorState(monitor) => IsCheck

C9_ReportOnlyReads == [][C9_StepOk]_vars

\* C10: for a report made after a positive runtime the total outage time
\* lies between 0 and the runtime, so the uptime percentage lies in
\* [0, 100] (here in hundredths), and it is exactly 100 when the report's
\* outage list is empty.
C10_StepOk ==
    LET report == report_text(monitor, now') IN
    (IsReport /\ report.total_runtime > 0) =>
        /\ 0 <= report.total_outage_time
        /\ report.total_outage_time <= report.total_runtime
        /\ report.uptime_percentage \in 0..10000
        /\ report.outage_list = <<>> => report.uptime_percentage = 10000

C10_UptimePercentageInRange == [][C10_StepOk]_vars

\* C14: every record_check call logs exactly one SUCCESS or FAILURE line,
\* the one of its result; a call that takes the monitor offline logs exactly
\* one OUTAGE_START, a call that brings it back exactly one OUTAGE_END, no
\* other call logs either; so in the log OUTAGE_START and OUTAGE_END
\* alternate, beginning with OUTAGE_START.
IsOutageEvent(e) == e \in {"OUTAGE_START", "OUTAGE_END"}

C14_StepOk ==
    LET added == Added(monitor.log, monitor'.log)
        n(e) == Count(added, e)
    IN  /\ IsSuccess => n("SUCCESS") = 1 /\ n("FAILURE") = 0
        /\ IsFailure => n("FAILURE") = 1 /\ n("SUCCESS") = 0
        /\ IsCheck => IsSuccess \/ IsFailure
        /\ n("OUTAGE_START") =
              (IF monitor.is_online /\ ~monitor'.is_online THEN 1 ELSE 0)
        /\ n("OUTAGE_END") =
              (IF ~monitor.is_online /\ monitor'.is_online THEN 1 ELSE 0)
        /\ ~IsCheck => added = <<>>
        /\ SubSeq(monitor'.log, 1, Len(monitor.log)) = monitor.log

C14_LogOk ==
    LET outage_events == SelectSeq(monitor.log, IsOutageEvent)
    IN  \A i \in 1..Len(outage_events) :
            outage_events[i] = IF i % 2 = 1 THEN "OUTAGE_START" ELSE "OUTAGE_END"

C14_OneEventPerCheckAndTransition == []C14_LogOk /\ [][C14_StepOk]_vars

\* an outage, a recovery and a second outage have been logged
C14_Witness ==
    SelectSeq(monitor.log, IsOutageEvent)
        = <<"OUTAGE_START", "OUTAGE_END", "OUTAGE_START">>

\* C15: a report contains the statistics block exactly when its outage
\* list, the synthetic ongoing record included, has at least two records;
\* the block's shortest and longest are the least and the greatest duration
\* of the list, its average is the mean of all durations cut to whole
\* seconds, and shortest <= average <= longest.
C15_StepOk ==
    IsReport =>
        LET report == report_text(monitor, now')
            used == monitor'.outages
            n == Len(used)
            stats == report.statistics
        IN  /\ stats.present <=> n >= 2
            /\ stats.present =>
                  /\ stats.min_outage <= stats.avg_outage
                  /\ stats.avg_outage <= stats.max_outage
                  /\ \A i \in 1..n : /\ stats.min_outage <= used[i].duration
                                     /\ used[i].duration <= stats.max_outage
                  /\ \E i \in 1..n : used[i].duration = stats.min_outage
                  /\ \E i \in 1..n : used[i].duration = stats.max_outage
                  /\ stats.avg_outage * n <= SumSeq(Durations(used))
                  /\ SumSeq(Durations(used)) < (stats.avg_outage + 1) * n

C15_StatisticsFromTwoRecords == [][C15_StepOk]_vars

\* a report has just been printed over a closed and an ongoing record of
\* different durations
C15_Witness ==
    /\ reports >= 1
    /\ monitor.console[Len(monitor.console)] = "REPORT"
    /\ Len(monitor.outages) = 2
    /\ ~monitor.outages[1].ongoing
    /\ monitor.outages[2].ongoing
    /\ monitor.outages[1].duration # monitor.outages[2].duration

\* C16: the report's number of outages is the number of records of the
\* list it was computed over (the records of outages, and one more if the
\* monitor is offline), and the OUTAGE DETAILS section is present exactly
\* when that number is above 0; with no record the report shows 0 outages
\* and no OUTAGE DETAILS section.
C16_StepOk ==
    IsReport =>
        LET report == report_text(monitor, now') IN
        /\ report.number_of_outages =
              Len(monitor.outages) + (IF monitor.is_online THEN 0 ELSE 1)
        /\ report.number_of_outages = Len(monitor'.outages)
        /\ report.has_outage_details <=> report.number_of_outages > 0
        /\ (monitor.outages = <<>> /\ monitor.is_online) =>
              /\ report.number_of_outages = 0
              /\ ~report.has_outage_details

C16_DetailsIffOutages == [][C16_StepOk]_vars

\* a report printed with no outage, and a later one printed with one
C16_Witness ==
    /\ reports = 2
    /\ monitor.console[1] = "REPORT"
    /\ monitor.console[Len(monitor.console)] = "REPORT"
    /\ Len(monitor.outages) = 1

\* C11: failures recorded 2, 4 and 6 seconds after the start and a success
\* recorded at 10 seconds give one outage that starts at 6 seconds, the time
\* of the failure that reached the threshold, and lasts 4 seconds.
ScenarioRun ==
    /\ monitor.log = <<"MONITOR_START", "FAILURE", "FAILURE", "FAILURE",
                       "OUTAGE_START", "OUTAGE_END", "SUCCESS">>
    /\ now = 10

C11_OutageOk ==
    (ScenarioRun /\ reports = 0) =>
        monitor.outages = <<[start |-> 6, end |-> 10, duration |-> 4,
                             ongoing |-> FALSE]>>

\* the claim as stated: the report made at 10 seconds shows one outage and
\* an average duration of 4 seconds
C11_ReportStepOriginal ==
    (ScenarioRun /\ reports = 0 /\ IsReport) =>
        LET report == report_text(monitor, now') IN
        /\ report.number_of_outages = 1
        /\ report.statistics.present
        /\ report.statistics.avg_outage = 4

C11_ScenarioAverageOriginal == []C11_OutageOk /\ [][C11_ReportStepOriginal]_vars

\* as amended: the report made at 10 seconds shows one outage, lists it
\* with its duration of 4 seconds, and prints no average, the statistics
\* block being left out for a single record
C11_ReportStepOk ==
    (ScenarioRun /\ reports = 0 /\ IsReport) =>
        LET report == report_text(monitor, now') IN
        /\ report.number_of_outages = 1
        /\ report.has_outage_details
        /\ report.outage_list[1].start = 6
        /\ report.outage_list[1].duration = 4
        /\ report.total_outage_time = 4
        /\ ~report.statistics.present

C11_ScenarioOutage == []C11_OutageOk /\ [][C11_ReportStepOk]_vars

\* the scenario has run and its report has been printed
C11_Witness ==
    /\ ScenarioRun
    /\ reports = 1
    /\ monitor.console[Len(monitor.console)] = "REPORT"
    /\ Len(monitor.outages) = 1

\* C13: in a cycle of perform_connectivity_test the probes go through the
\* three ping targets and then the first two DNS domains, in this order,
\* and stop at the first success, so a DNS domain is probed only after all
\* three pings failed; every result is recorded by record_check; the cycle
\* returns true exactly when one of its probes succeeded.
ProbeOrder ==
    <<"8.8.8.8", "1.1.1.1", "208.67.222.222", "google.com", "cloudflare.com">>

IsCheckEvent(e) == e \in {"SUCCESS", "FAILURE"}

C13_ProbeOrderAndReturn ==
    LET n == Len(proc.probed)
        checks == SelectSeq(monitor.log, IsCheckEvent)
    IN  /\ n <= Len(ProbeOrder)
        /\ Len(proc.results) = n
        /\ \A k \in 1..n : /\ proc.probed[k][1] = ProbeOrder[k]
                           /\ proc.probed[k][2] = proc.results[k]
        /\ \A k \in 1..(n - 1) : ~proc.results[k]
        /\ (proc.pc = "sleep") =>
              /\ n >= 1
              /\ proc.results[n] \/ n = Len(ProbeOrder)
              /\ proc.ret <=> proc.results[n]
              /\ proc.ret <=> \E k \in 1..n : proc.probed[k][2]
        /\ (proc.pc = "sleep" /\ proc.signals = 0) =>
              /\ monitor.total_checks = calls
              /\ Len(checks) >= n
              /\ \A k \in 1..n :
                    checks[Len(checks) - n + k]
                        = IF proc.results[k] THEN "SUCCESS" ELSE "FAILURE"

\* a cycle whose three pings failed and whose first DNS lookup succeeded
C13_Witness ==
    /\ proc.pc = "sleep"
    /\ Len(proc.probed) = 4
    /\ proc.probed[4] = <<"google.com", TRUE>>
    /\ proc.ret

\* C17: when a cycle of perform_connectivity_test has returned, is_online
\* is the value it returned: online after a cycle with a successful probe,
\* offline after a cycle whose three pings and two DNS lookups all failed
\* and were recorded as five failures.
C17_OnlineIsCycleResult ==
    (proc.pc = "sleep") =>
        /\ monitor.is_online = proc.ret
        /\ ~proc.ret =>
              /\ Len(proc.results) = 5
              /\ proc.signals = 0 => monitor.consecutive_failures >= 5

\* a failed cycle has left the monitor offline, and the next cycle has
\* brought it back
C17_Witness ==
    /\ proc.pc = "sleep"
    /\ proc.ret
    /\ monitor.is_online
    /\ Count(monitor.log, "OUTAGE_END") = 1
    /\ monitor.failed_checks = 5

\* ---- the report the interrupt handler writes ----------------------------
Exited == proc.pc = "exited"

\* the last report written
FinalReport == proc.final_reports[Len(proc.final_reports)]

StartedOutages == Count(monitor.log, "OUTAGE_START")

Closed(outs) == {i \in 1..Len(outs) : ~outs[i].ongoing}

\* C12: once the interrupt has arrived the main loop runs no further
\* statement, so no probe is issued and no record_check statement runs; when
\* the process has ended a report has been written, and an outage that was
\* started and not yet closed by a record in outages is in that report as a
\* record flagged ongoing.
C12_StepOk ==
    proc.signals >= 1 =>
        /\ proc'.pc \in {proc.pc, "exited"}
        /\ calls' = calls
        /\ proc'.probed = proc.probed
        /\ monitor'.total_checks = monitor.total_checks
        /\ monitor'.log = monitor.log

C12_ExitOk ==
    Exited =>
        /\ Len(proc.final_reports) >= 1
        /\ reports >= 1
        /\ StartedOutages > Cardinality(Closed(FinalReport.outage_list)) =>
              Ongoing(FinalReport.outage_list) # {}

C12_InterruptStopsAndReports == []C12_ExitOk /\ [][C12_StepOk]_vars

\* the liveness half of C12: under weak fairness of the handler's steps,
\* which run whenever the process is given time, every interrupt leads to
\* the end of the process
MainFairSpec == MainSpec /\ WF_vars(HandlerStep)

InterruptLeadsToExit == (proc.signals >= 1) ~> Exited

\* C18: after a single interrupt, wherever it fell, every outage whose
\* OUTAGE_START was logged is in the final report exactly once: the closed
\* records are the outages that ended, and an outage started beyond them has
\* exactly one record flagged ongoing.
C18_EveryOutageOnceInReport ==
    (Exited /\ proc.signals = 1) =>
        LET used == FinalReport.outage_list IN
        /\ StartedOutages <= Cardinality(Closed(used)) + 1
        /\ StartedOutages > Cardinality(Closed(used)) =>
              Cardinality(Ongoing(used)) = 1

\* C19: wherever the interrupt fell, the counters of the report add up.
C19_ReportCountersAddUp ==
    \A k \in 1..Len(proc.final_reports) :
        proc.final_reports[k].total_checks
            = proc.final_reports[k].successful_checks
                + proc.final_reports[k].failed_checks

\* C20: in one run generate_report is entered at most once, so at most one
\* record flagged ongoing is appended to outages and at most one report is
\* written.
C20_ReportGeneratedOnce ==
    /\ proc.report_calls <= 1
    /\ Cardinality(Ongoing(monitor.outages)) <= 1
    /\ reports <= 1

====
